---- MODULE Spec2Model ----
(***************************************************************************)
(* Model of the homework-status poller (src/homework.py, src/exception.py).*)
(*                                                                         *)
(* main() is one sequential process.  Its positions are                    *)
(*   "main"    before check_tokens()                       (line 205)      *)
(*   "try"     at the head of the while loop               (line 219)      *)
(*   "finally" in the finally clause, before time.sleep    (line 247)      *)
(*   "exit"    after exit()                                (line 212)      *)
(*   "raised"  an exception has propagated out of main()                   *)
(*                                                                         *)
(* Strings are TLA+ strings: f-strings are built with \o, slices with      *)
(* SubSeq.  The Cyrillic literals of the source are transliterated letter  *)
(* for letter (same length), since the module is ASCII.                    *)
(* Decoded JSON values are tagged records:                                 *)
(*   JStr(s), JInt(n), JList(<<v1, ...>>), JDict(<<[k, v], ...>>)          *)
(* a dict keeps its pairs in insertion order, as Python does.              *)
(***************************************************************************)
EXTENDS Integers, Sequences, FiniteSets, TLC

VARIABLES
    pc,            \* position of main()
    env,           \* PRACTICUM_TOKEN, TELEGRAM_TOKEN, TELEGRAM_CHAT_ID (lines 25-27)
    now,           \* the wall clock, int(time.time())
    timestamp,     \* main's polling cursor (line 215)
    error_list,    \* main's error registry (line 216)
    pending,       \* the exception propagating through finally / out of main
    cycle,         \* number of loop iterations started
    branch,        \* which clause of the try statement the last iteration ended in
    prev_branch,   \* the same of the iteration before it
    from_date,     \* payload of the last request to ENDPOINT (line 117)
    response,      \* what get_api_answer returned in the last iteration
    sends,         \* bot.send_message calls of the last step: <<[text, ok], ...>>
    log,           \* logger records of the last step: <<[level, msg], ...>>
    sleeps,        \* time.sleep calls since the last iteration started
    prechecks,     \* calls of check_tokens
    probes,        \* answers to the requests of check_tokens to the Telegram API
    streak_sends,  \* texts handed to bot.send_message since error_list was last reset
    caught         \* the exception the try body of the last iteration raised

vars == <<pc, env, now, timestamp, error_list, pending, cycle, branch, prev_branch,
          from_date, response, sends, log, sleeps, prechecks, probes,
          streak_sends, caught>>

(* Bounds of the model                                                     *)

MaxCycles == 3             \* loop iterations explored
MaxElapsed == 1            \* seconds the calls of one iteration may take
StartTime == 1700000000    \* clock reading when main() starts
MaxHomeworks == 2          \* longest homeworks list of the bodies given to check_response

(* Program constants                                                       *)

RETRY_PERIOD == 600
ENDPOINT == "https://practicum.yandex.ru/api/user_api/homework_statuses/"
HTTP_OK == 200
HTTP_UNAUTHORIZED == 401

VerdictKeys == {"approved", "reviewing", "rejected"}
HOMEWORK_VERDICTS ==
    [s \in VerdictKeys |->
        CASE s = "approved"  -> "Rabota proverena: rev_ueru vse ponravilos_. Ura!"
          [] s = "reviewing" -> "Rabota vzata na proverku rev_uerom."
          [] s = "rejected"  -> "Rabota proverena: u rev_uera est_ zamecania."]

NO_PRACTICUM_TOKEN_ANSWER == "PRACTICUM_TOKEN has not been found in env"
NO_TELEGRAM_TOKEN_ANSWER == "TELEGRAM_TOKEN has not been found in env"
NO_TELEGRAM_CHAT_ID_TOKEN_ANSWER == "TELEGRAM_CHAT_ID has not been found in env"
WRONG_TELEGRAM_TOKEN == "TELEGRAM_TOKEN is wrong"

(* Python values                                                           *)

JStr(s) == [t |-> "str", s |-> s]
JInt(n) == [t |-> "int", n |-> n]
JList(xs) == [t |-> "list", items |-> xs]
JDict(ps) == [t |-> "dict", pairs |-> ps]
JNone == [t |-> "none"]

Range(f) == {f[i] : i \in DOMAIN f}

Digit(d) == <<"0", "1", "2", "3", "4", "5", "6", "7", "8", "9">>[d + 1]

RECURSIVE IntStr(_)
IntStr(n) ==
    IF n < 0 THEN "-" \o IntStr(0 - n)
    ELSE IF n < 10 THEN Digit(n)
    ELSE IntStr(n \div 10) \o Digit(n % 10)

RECURSIVE PyRepr(_)
RECURSIVE ReprItems(_)
RECURSIVE ReprPairs(_)

\* repr(v)
PyRepr(v) ==
    CASE v.t = "str"  -> "'" \o v.s \o "'"
      [] v.t = "int"  -> IntStr(v.n)
      [] v.t = "list" -> "[" \o ReprItems(v.items) \o "]"
      [] v.t = "dict" -> "{" \o ReprPairs(v.pairs) \o "}"
      [] v.t = "none" -> "None"

ReprItems(xs) ==
    IF Len(xs) = 0 THEN ""
    ELSE PyRepr(Head(xs)) \o (IF Len(xs) > 1 THEN ", " ELSE "")
         \o ReprItems(Tail(xs))

ReprPairs(ps) ==
    IF Len(ps) = 0 THEN ""
    ELSE "'" \o Head(ps).k \o "': " \o PyRepr(Head(ps).v)
         \o (IF Len(ps) > 1 THEN ", " ELSE "") \o ReprPairs(Tail(ps))

\* str(v), which is what an f-string field {v} formats
PyStr(v) == IF v.t = "str" THEN v.s ELSE PyRepr(v)

\* key in d, for a dict d
DictHas(d, key) == \E i \in 1..Len(d.pairs) : d.pairs[i].k = key

\* d[key], for a dict d holding key
DictGet(d, key) == d.pairs[CHOOSE i \in 1..Len(d.pairs) : d.pairs[i].k = key].v

\* bool(v)
Truthy(v) ==
    CASE v.t = "str"  -> v.s # ""
      [] v.t = "int"  -> v.n # 0
      [] v.t = "list" -> Len(v.items) > 0
      [] v.t = "dict" -> Len(v.pairs) > 0
      [] v.t = "none" -> FALSE

\* type(v).__name__
PyTypeName(v) == IF v.t = "none" THEN "NoneType" ELSE v.t

\* message[:k]
Prefix(s, k) == IF Len(s) <= k THEN s ELSE SubSeq(s, 1, k)

(* Exceptions (src/exception.py): a type name and str(error)               *)

Exc(type, msg) == [type |-> type, msg |-> msg]
NoExc == Exc("", "")


(* src/homework.py: the functions main() calls.  Each takes, next to the   *)
(* arguments of the source, what the outside world answers to its call.    *)

\* What the Telegram probe of check_tokens can meet: requests.get raises a
\* RequestException with str(error) = text, or answers with status_code.
ProbeResult(kind, text, status_code) ==
    [kind |-> kind, text |-> text, status_code |-> status_code]

\* What the request of get_api_answer can meet.  kind: "RequestException"
\* (requests.get raises it), "Exception" (it raises something else) or
\* "response"; json: "ok" (response.json() returns body), or the class
\* response.json() raises: requests' own JSONDecodeError, which is a
\* RequestException as well, or json.decoder.JSONDecodeError (older requests).
NetResult(kind, text, status_code, json, body) ==
    [kind |-> kind, text |-> text, status_code |-> status_code,
     json |-> json, body |-> body]

\* What bot.send_message can meet: it returns, or raises with str(error) = text.
SendResult(ok, text) == [ok |-> ok, text |-> text]

LogRecord(level, msg) == [level |-> level, msg |-> msg]

\* mutant: TELEGRAM_TOKEN tested before PRACTICUM_TOKEN
check_tokens_telegramFirst(e, probe) ==
    IF e.TELEGRAM_TOKEN = ""
    THEN [exc |-> Exc("NoEnvValueException", NO_TELEGRAM_TOKEN_ANSWER), probes |-> 0]
    ELSE IF e.PRACTICUM_TOKEN = ""
    THEN [exc |-> Exc("NoEnvValueException", NO_PRACTICUM_TOKEN_ANSWER), probes |-> 0]
    ELSE IF e.TELEGRAM_CHAT_ID = ""
    THEN [exc |-> Exc("NoEnvValueException", NO_TELEGRAM_CHAT_ID_TOKEN_ANSWER),
          probes |-> 0]
    ELSE IF probe.kind = "RequestException"
    THEN [exc |-> Exc("RequestFailedException",
                      "Something went wrong with Telegram API request: "
                          \o probe.text),
          probes |-> 1]
    ELSE IF probe.status_code = HTTP_UNAUTHORIZED
    THEN [exc |-> Exc("WrongTokenException", WRONG_TELEGRAM_TOKEN), probes |-> 1]
    ELSE [exc |-> NoExc, probes |-> 1]

check_tokens(e, probe) ==
    IF e.PRACTICUM_TOKEN = ""
    THEN [exc |-> Exc("NoEnvValueException", NO_PRACTICUM_TOKEN_ANSWER), probes |-> 0]
    ELSE IF e.TELEGRAM_TOKEN = ""
    THEN [exc |-> Exc("NoEnvValueException", NO_TELEGRAM_TOKEN_ANSWER), probes |-> 0]
    ELSE IF e.TELEGRAM_CHAT_ID = ""
    THEN [exc |-> Exc("NoEnvValueException", NO_TELEGRAM_CHAT_ID_TOKEN_ANSWER),
          probes |-> 0]
    ELSE IF probe.kind = "RequestException"
    THEN [exc |-> Exc("RequestFailedException",
                      "Something went wrong with Telegram API request: "
                          \o probe.text),
          probes |-> 1]
    ELSE IF probe.status_code = HTTP_UNAUTHORIZED
    THEN [exc |-> Exc("WrongTokenException", WRONG_TELEGRAM_TOKEN), probes |-> 1]
    ELSE [exc |-> NoExc, probes |-> 1]

send_message(message, chat_id, tg) ==
    IF tg.ok
    THEN [exc |-> NoExc,
          sends |-> <<[text |-> message, ok |-> TRUE]>>,
          log |-> <<LogRecord("DEBUG",
                      "Bot has sent a message: \"" \o message
                          \o "\" in telegram chat #" \o chat_id)>>]
    ELSE [exc |-> Exc("DoesntSendMessagesException",
                      "Bot has not sent a message: \"" \o Prefix(message, 20)
                          \o "...\" in telegram chat #" \o chat_id
                          \o ". Error: " \o tg.text),
          sends |-> <<[text |-> message, ok |-> FALSE]>>,
          log |-> <<LogRecord("ERROR", tg.text)>>]

get_api_answer(ts, net) ==
    IF net.kind = "RequestException"
    THEN [exc |-> Exc("RequestFailedException",
                      "Something went wrong with Yandex API request: " \o net.text),
          value |-> JNone]
    ELSE IF net.kind = "Exception"
    THEN [exc |-> Exc("Exception", net.text), value |-> JNone]
    ELSE IF net.status_code # HTTP_OK
    THEN [exc |-> Exc("UnexpectedAPIAnswerStatusException",
                      "An API answer status code does not equal 200. Status code: "
                          \o IntStr(net.status_code)),
          value |-> JNone]
    ELSE IF net.json = "requests.JSONDecodeError"
    THEN [exc |-> Exc("RequestFailedException",
                      "Something went wrong with Yandex API request: " \o net.text),
          value |-> JNone]
    ELSE IF net.json = "json.JSONDecodeError"
    THEN [exc |-> Exc("EndpointReachingException",
                      "Endpoint: \"" \o ENDPOINT
                          \o "\" could not be reached. Error: " \o net.text),
          value |-> JNone]
    ELSE [exc |-> NoExc, value |-> net.body]

NOT_A_LIST_OR_DICT ==
    "Yandex API answer value under homeworks key is not a list "
        \o "or answer value is not a dict"

\* mutant: the last check (lines 165-166) dropped, an empty list is accepted
check_response_acceptsEmpty(resp) ==
    IF resp.t # "dict"
    THEN Exc("TypeError", NOT_A_LIST_OR_DICT)
    ELSE IF DictHas(resp, "code")
    THEN Exc("UnexpectedAPIAnswerException",
             "Unexpected yandex API answer. Code: \""
                 \o PyStr(DictGet(resp, "code")) \o "\"")
    ELSE IF ~DictHas(resp, "homeworks")
    THEN Exc("UnexpectedAPIAnswerException",
             "Unexpected yandex API answer. No homeworks key: " \o PyStr(resp))
    ELSE IF ~DictHas(resp, "current_date")
    THEN Exc("UnexpectedAPIAnswerException",
             "Unexpected yandex API answer. No current_date key: " \o PyStr(resp))
    ELSE IF DictGet(resp, "homeworks").t # "list"
    THEN Exc("TypeError", NOT_A_LIST_OR_DICT)
    ELSE NoExc

check_response(resp) ==
    IF resp.t # "dict"
    THEN Exc("TypeError", NOT_A_LIST_OR_DICT)
    ELSE IF DictHas(resp, "code")
    THEN Exc("UnexpectedAPIAnswerException",
             "Unexpected yandex API answer. Code: \""
                 \o PyStr(DictGet(resp, "code")) \o "\"")
    ELSE IF ~DictHas(resp, "homeworks")
    THEN Exc("UnexpectedAPIAnswerException",
             "Unexpected yandex API answer. No homeworks key: " \o PyStr(resp))
    ELSE IF ~DictHas(resp, "current_date")
    THEN Exc("UnexpectedAPIAnswerException",
             "Unexpected yandex API answer. No current_date key: " \o PyStr(resp))
    ELSE IF DictGet(resp, "homeworks").t # "list"
    THEN Exc("TypeError", NOT_A_LIST_OR_DICT)
    ELSE IF ~Truthy(DictGet(resp, "homeworks"))
    THEN Exc("EmptyHomeworkException", "")
    ELSE NoExc

\* key in homework, for the homework values of the model (a dict or a list;
\* an int is not iterable and is handled by the caller)
PyIn(key, v) ==
    IF v.t = "dict" THEN DictHas(v, key)
    ELSE \E i \in 1..Len(v.items) : v.items[i] = JStr(key)

\* mutant: the status looked up before the two key tests of lines 171-178
parse_status_lookupFirst(homework) ==
    IF homework.t \notin {"dict", "list"}
    THEN [exc |-> Exc("TypeError",
                      "argument of type '" \o PyTypeName(homework)
                          \o "' is not iterable"),
          value |-> ""]
    ELSE IF /\ homework.t = "dict" /\ DictHas(homework, "status")
            /\ DictGet(homework, "status").t = "str"
            /\ DictGet(homework, "status").s \notin DOMAIN HOMEWORK_VERDICTS
    THEN [exc |-> Exc("WrongHomeworkStatusException",
                      "Unknown homework status: \""
                          \o PyStr(DictGet(homework, "status")) \o "\""),
          value |-> ""]
    ELSE IF ~PyIn("homework_name", homework)
    THEN [exc |-> Exc("WrongHomeworkStructureException",
                      "No \"homework_name\" in homework: \""
                          \o PyStr(homework) \o "\""),
          value |-> ""]
    ELSE IF ~PyIn("status", homework)
    THEN [exc |-> Exc("WrongHomeworkStructureException",
                      "No \"status\" in homework: \"" \o PyStr(homework) \o "\""),
          value |-> ""]
    ELSE IF homework.t = "list"
    THEN [exc |-> Exc("TypeError",
                      "list indices must be integers or slices, not str"),
          value |-> ""]
    ELSE IF DictGet(homework, "status").t \in {"list", "dict"}
    THEN [exc |-> Exc("TypeError",
                      "unhashable type: '" \o DictGet(homework, "status").t \o "'"),
          value |-> ""]
    ELSE IF \/ DictGet(homework, "status").t # "str"
            \/ DictGet(homework, "status").s \notin DOMAIN HOMEWORK_VERDICTS
    THEN [exc |-> Exc("WrongHomeworkStatusException",
                      "Unknown homework status: \""
                          \o PyStr(DictGet(homework, "status")) \o "\""),
          value |-> ""]
    ELSE [exc |-> NoExc,
          value |-> "Izmenilsa status proverki raboty \""
                        \o PyStr(DictGet(homework, "homework_name")) \o "\". "
                        \o HOMEWORK_VERDICTS[DictGet(homework, "status").s]]

\* homework values are dicts, lists, ints or None; a str homework (substring
\* test) is outside the inputs of the model
parse_status(homework) ==
    IF homework.t \notin {"dict", "list"}
    THEN [exc |-> Exc("TypeError",
                      "argument of type '" \o PyTypeName(homework)
                          \o "' is not iterable"),
          value |-> ""]
    ELSE IF ~PyIn("homework_name", homework)
    THEN [exc |-> Exc("WrongHomeworkStructureException",
                      "No \"homework_name\" in homework: \""
                          \o PyStr(homework) \o "\""),
          value |-> ""]
    ELSE IF ~PyIn("status", homework)
    THEN [exc |-> Exc("WrongHomeworkStructureException",
                      "No \"status\" in homework: \"" \o PyStr(homework) \o "\""),
          value |-> ""]
    ELSE IF homework.t = "list"
    THEN [exc |-> Exc("TypeError",
                      "list indices must be integers or slices, not str"),
          value |-> ""]
    ELSE IF DictGet(homework, "status").t \in {"list", "dict"}
    THEN [exc |-> Exc("TypeError",
                      "unhashable type: '" \o DictGet(homework, "status").t \o "'"),
          value |-> ""]
    ELSE IF \/ DictGet(homework, "status").t # "str"
            \/ DictGet(homework, "status").s \notin DOMAIN HOMEWORK_VERDICTS
    THEN [exc |-> Exc("WrongHomeworkStatusException",
                      "Unknown homework status: \""
                          \o PyStr(DictGet(homework, "status")) \o "\""),
          value |-> ""]
    ELSE [exc |-> NoExc,
          value |-> "Izmenilsa status proverki raboty \""
                        \o PyStr(DictGet(homework, "homework_name")) \o "\". "
                        \o HOMEWORK_VERDICTS[DictGet(homework, "status").s]]

\* mutant: the membership test of line 198 dropped
add_in_error_list_and_send_nocheck(error, errors, chat_id, tg) ==
    LET s == send_message(error.msg, chat_id, tg)
    IN  [error_list |-> Append(errors, error.msg),
         exc |-> s.exc, sends |-> s.sends, log |-> s.log]

\* mutant: list.append moved out of the if of line 198, the send left inside
add_in_error_list_and_send_alwaysAppend(error, errors, chat_id, tg) ==
    IF error.msg \notin Range(errors)
    THEN LET s == send_message(error.msg, chat_id, tg)
         IN  [error_list |-> Append(errors, error.msg),
              exc |-> s.exc, sends |-> s.sends, log |-> s.log]
    ELSE [error_list |-> Append(errors, error.msg),
          exc |-> NoExc, sends |-> <<>>, log |-> <<>>]

add_in_error_list_and_send(error, errors, chat_id, tg) ==
    IF error.msg \notin Range(errors)
    THEN LET s == send_message(error.msg, chat_id, tg)
         IN  [error_list |-> Append(errors, error.msg),
              exc |-> s.exc, sends |-> s.sends, log |-> s.log]
    ELSE [error_list |-> errors, exc |-> NoExc, sends |-> <<>>, log |-> <<>>]

(* main(): the try statement of one loop iteration                         *)

\* mutant: TypeError left out of the except clause
RecoverableTypes_noTypeError ==
    {"UnexpectedAPIAnswerException", "UnexpectedAPIAnswerStatusException",
     "WrongHomeworkStatusException", "WrongHomeworkStructureException",
     "RequestFailedException", "EndpointReachingException"}

\* mutant: DoesntSendMessagesException added to the except clause
RecoverableTypes_withSendFailure ==
    {"UnexpectedAPIAnswerException", "UnexpectedAPIAnswerStatusException",
     "WrongHomeworkStatusException", "WrongHomeworkStructureException",
     "RequestFailedException", "EndpointReachingException", "TypeError",
     "DoesntSendMessagesException"}

\* mutant: UnexpectedAPIAnswerStatusException left out of the except clause
RecoverableTypes_noStatusCode ==
    {"UnexpectedAPIAnswerException",
     "WrongHomeworkStatusException", "WrongHomeworkStructureException",
     "RequestFailedException", "EndpointReachingException", "TypeError"}

\* the exception classes of the first except clause (lines 227-235)
RecoverableTypes ==
    {"UnexpectedAPIAnswerException", "UnexpectedAPIAnswerStatusException",
     "WrongHomeworkStatusException", "WrongHomeworkStructureException",
     "RequestFailedException", "EndpointReachingException", "TypeError"}

\* mutant: line 222 reading the last record of the list, not the first
TryBody_lastRecord(ts, chat_id, net, tg) ==
    LET a == get_api_answer(ts, net)
    IN  IF a.exc # NoExc
        THEN [exc |-> a.exc, response |-> JNone, sends |-> <<>>, log |-> <<>>]
        ELSE
    LET c == check_response(a.value)
    IN  IF c # NoExc
        THEN [exc |-> c, response |-> a.value, sends |-> <<>>, log |-> <<>>]
        ELSE
    LET hs == DictGet(a.value, "homeworks").items
        p == parse_status(hs[Len(hs)])
    IN  IF p.exc # NoExc
        THEN [exc |-> p.exc, response |-> a.value, sends |-> <<>>, log |-> <<>>]
        ELSE
    LET s == send_message(p.value, chat_id, tg)
    IN  [exc |-> s.exc, response |-> a.value, sends |-> s.sends, log |-> s.log]

\* lines 220-223: the calls of the try body, up to the first that raises
TryBody(ts, chat_id, net, tg) ==
    LET a == get_api_answer(ts, net)
    IN  IF a.exc # NoExc
        THEN [exc |-> a.exc, response |-> JNone, sends |-> <<>>, log |-> <<>>]
        ELSE
    LET c == check_response(a.value)
    IN  IF c # NoExc
        THEN [exc |-> c, response |-> a.value, sends |-> <<>>, log |-> <<>>]
        ELSE
    LET p == parse_status(DictGet(a.value, "homeworks").items[1])
    IN  IF p.exc # NoExc
        THEN [exc |-> p.exc, response |-> a.value, sends |-> <<>>, log |-> <<>>]
        ELSE
    LET s == send_message(p.value, chat_id, tg)
    IN  [exc |-> s.exc, response |-> a.value, sends |-> s.sends, log |-> s.log]

\* mutant: the cursor set one period back
NextTimestamp_lookback(clock) == clock - RETRY_PERIOD

\* mutant: the + 1 of line 225 dropped
NextTimestamp_same(clock) == clock

\* line 225
NextTimestamp(clock) == clock + 1

\* mutant: line 224 dropped, the registry survives a completed iteration
OnCompleted_keeps(b, errors, clock) ==
    [branch |-> "completed", caught |-> NoExc, pending |-> NoExc,
     timestamp |-> NextTimestamp(clock), error_list |-> errors, clock |-> clock,
     response |-> b.response, sends |-> b.sends, log |-> b.log]

\* lines 224-225: the try body raised nothing.  errors is error_list before
\* line 224 and clock is time.time() at line 225.
OnCompleted(b, errors, clock) ==
    [branch |-> "completed", caught |-> NoExc, pending |-> NoExc,
     timestamp |-> NextTimestamp(clock), error_list |-> <<>>, clock |-> clock,
     response |-> b.response, sends |-> b.sends, log |-> b.log]

\* lines 227-237.  tg is what the send of add_in_error_list_and_send meets; an
\* exception it raises leaves the except clause and propagates.
OnRecoverable(b, ts, errors, chat_id, tg, clock) ==
    LET d == add_in_error_list_and_send(b.exc, errors, chat_id, tg)
    IN  [branch |-> "recoverable", caught |-> b.exc, pending |-> d.exc,
         timestamp |-> ts, error_list |-> d.error_list, clock |-> clock,
         response |-> b.response, sends |-> b.sends \o d.sends,
         log |-> b.log \o <<LogRecord("ERROR", b.exc.msg)>> \o d.log]

\* mutant: line 225 run for an empty answer too, line 224 not
OnEmpty_advances(b, ts, errors, clock) ==
    [branch |-> "empty", caught |-> b.exc, pending |-> NoExc,
     timestamp |-> NextTimestamp(clock), error_list |-> errors, clock |-> clock,
     response |-> b.response, sends |-> b.sends,
     log |-> b.log \o <<LogRecord("DEBUG", "No updates")>>]

\* mutant: an empty answer treated as a success, registry reset
OnEmpty_clears(b, ts, errors, clock) ==
    [branch |-> "empty", caught |-> b.exc, pending |-> NoExc,
     timestamp |-> ts, error_list |-> <<>>, clock |-> clock,
     response |-> b.response, sends |-> b.sends,
     log |-> b.log \o <<LogRecord("DEBUG", "No updates")>>]

\* lines 239-240
OnEmpty(b, ts, errors, clock) ==
    [branch |-> "empty", caught |-> b.exc, pending |-> NoExc,
     timestamp |-> ts, error_list |-> errors, clock |-> clock,
     response |-> b.response, sends |-> b.sends,
     log |-> b.log \o <<LogRecord("DEBUG", "No updates")>>]

\* lines 242-244
OnFatal(b, ts, errors, clock) ==
    [branch |-> "fatal", caught |-> b.exc,
     pending |-> Exc("GeneralProgramException",
                     "Sboi v rabote programmy: " \o b.exc.msg),
     timestamp |-> ts, error_list |-> errors, clock |-> clock,
     response |-> b.response, sends |-> b.sends,
     log |-> b.log \o <<LogRecord("CRITICAL",
                           "Sboi v rabote programmy: " \o b.exc.msg)>>]

\* mutant: the status message of line 223 withheld while the registry of sent
\* errors is not empty
TryStatement_quietWhileFailing(ts, errors, chat_id, net, tgs, clock, elapsed) ==
    LET b0 == TryBody(ts, chat_id, net, tgs[1])
        b == IF b0.exc = NoExc /\ errors # <<>>
             THEN [b0 EXCEPT !.sends = <<>>, !.log = <<>>]
             ELSE b0
    IN  IF b.exc = NoExc
        THEN OnCompleted(b, errors, clock + elapsed)
        ELSE IF b.exc.type \in RecoverableTypes
        THEN OnRecoverable(b, ts, errors, chat_id, tgs[Len(b.sends) + 1], clock)
        ELSE IF b.exc.type = "EmptyHomeworkException"
        THEN OnEmpty(b, ts, errors, clock)
        ELSE OnFatal(b, ts, errors, clock)

\* lines 219-244.  tgs[k] is what the k-th bot.send_message call of the
\* iteration meets; clock is time.time() when the iteration starts and elapsed
\* the seconds from then to the clock reading of line 225.  An iteration that
\* does not reach line 225 reads no clock and takes no time of its own.
TryStatement(ts, errors, chat_id, net, tgs, clock, elapsed) ==
    LET b == TryBody(ts, chat_id, net, tgs[1])
    IN  IF b.exc = NoExc
        THEN OnCompleted(b, errors, clock + elapsed)
        ELSE IF b.exc.type \in RecoverableTypes
        THEN OnRecoverable(b, ts, errors, chat_id, tgs[Len(b.sends) + 1], clock)
        ELSE IF b.exc.type = "EmptyHomeworkException"
        THEN OnEmpty(b, ts, errors, clock)
        ELSE OnFatal(b, ts, errors, clock)

(* The inputs of the model                                                 *)

EnvValues ==
    [PRACTICUM_TOKEN : {"", "practicum-token"},
     TELEGRAM_TOKEN : {"", "telegram-token"},
     TELEGRAM_CHAT_ID : {"", "42"}]

ProbeResults ==
    {ProbeResult("RequestException", "probe timed out", 0),
     ProbeResult("response", "", HTTP_UNAUTHORIZED),
     ProbeResult("response", "", 404)}

SendResults ==
    {SendResult(TRUE, ""), SendResult(FALSE, "Forbidden: bot was blocked")}

Pair(k, v) == [k |-> k, v |-> v]
Homework(name, status) ==
    JDict(<<Pair("homework_name", JStr(name)), Pair("status", JStr(status))>>)

Homeworks ==
    {Homework("hw1", "approved"), Homework("hw2", "rejected"),
     Homework("hw1", "lost"),
     JDict(<<Pair("status", JStr("approved"))>>),
     JDict(<<Pair("status", JStr("lost"))>>),
     JDict(<<Pair("homework_name", JStr("hw1"))>>)}

\* decoded bodies; the server's current_date is the clock reading of the request
Bodies(clock) ==
    {JList(<<>>),
     JDict(<<Pair("code", JStr("not_authenticated"))>>),
     JDict(<<Pair("current_date", JInt(clock))>>),
     JDict(<<Pair("homeworks", JList(<<>>))>>),
     JDict(<<Pair("homeworks", JNone), Pair("current_date", JInt(clock))>>),
     JDict(<<Pair("homeworks", JList(<<>>)), Pair("current_date", JInt(clock))>>)}
    \cup {JDict(<<Pair("homeworks", JList(<<h>>)), Pair("current_date", JInt(clock))>>) :
            h \in Homeworks}
    \cup {JDict(<<Pair("homeworks", JList(<<Homework("hw1", "approved"),
                                            Homework("hw0", "lost")>>)),
                  Pair("current_date", JInt(clock))>>),
          JDict(<<Pair("homeworks", JList(<<Homework("hw0", "lost"),
                                            Homework("hw1", "approved")>>)),
                  Pair("current_date", JInt(clock))>>)}

NetResults(clock) ==
    {NetResult("RequestException", "connection refused", 0, "ok", JNone),
     NetResult("Exception", "out of memory", 0, "ok", JNone),
     NetResult("response", "", 500, "ok", JNone),
     NetResult("response", "Expecting value", HTTP_OK,
               "requests.JSONDecodeError", JNone),
     NetResult("response", "Expecting value", HTTP_OK,
               "json.JSONDecodeError", JNone)}
    \cup {NetResult("response", "", HTTP_OK, "ok", b) : b \in Bodies(clock)}

(* main() as a state machine                                               *)

Init ==
    /\ pc = "main"
    /\ env \in EnvValues
    /\ now = StartTime
    /\ timestamp = 0
    /\ error_list = <<>>
    /\ pending = NoExc
    /\ cycle = 0
    /\ branch = ""
    /\ prev_branch = ""
    /\ from_date = 0
    /\ response = JNone
    /\ sends = <<>>
    /\ log = <<>>
    /\ sleeps = 0
    /\ prechecks = 0
    /\ probes = <<>>
    /\ streak_sends = <<>>
    /\ caught = NoExc

\* lines 205-216
Startup ==
    /\ pc = "main"
    /\ \E probe \in ProbeResults :
         LET c == check_tokens(env, probe)
         IN  /\ prechecks' = prechecks + 1
             /\ probes' = IF c.probes = 1 THEN probes \o <<probe>> ELSE probes
             /\ caught' = c.exc
             /\ IF c.exc.type \in {"NoEnvValueException", "WrongTokenException"}
                THEN /\ log' = <<LogRecord("CRITICAL", c.exc.msg)>>
                     /\ pc' = "exit"
                     /\ pending' = NoExc
                     /\ UNCHANGED <<timestamp, error_list>>
                ELSE IF c.exc # NoExc
                THEN /\ log' = <<>>
                     /\ pc' = "raised"
                     /\ pending' = c.exc
                     /\ UNCHANGED <<timestamp, error_list>>
                ELSE /\ log' = <<>>
                     /\ pc' = "try"
                     /\ pending' = NoExc
                     /\ timestamp' = now
                     /\ error_list' = <<>>
    /\ UNCHANGED <<env, now, cycle, branch, prev_branch, from_date, response,
                   sends, sleeps,
                   streak_sends>>

SendTexts(ss) == [i \in 1..Len(ss) |-> ss[i].text]

\* lines 219-244: the try statement of one iteration, up to the finally
\* clause, for what the iteration meets: the answer net to its request, the
\* answers tgs to its sends and the seconds elapsed up to line 225
IterationWith(net, tgs, elapsed) ==
    /\ pc = "try"
    /\ cycle < MaxCycles
    /\ LET r == TryStatement(timestamp, error_list, env.TELEGRAM_CHAT_ID,
                             net, tgs, now, elapsed)
       IN  /\ now' = r.clock
           /\ from_date' = timestamp
           /\ timestamp' = r.timestamp
           /\ error_list' = r.error_list
           /\ pending' = r.pending
           /\ branch' = r.branch
           /\ prev_branch' = branch
           /\ caught' = r.caught
           /\ response' = r.response
           /\ sends' = r.sends
           /\ log' = r.log
           /\ streak_sends' = IF r.branch = "completed"
                              THEN <<>>
                              ELSE streak_sends \o SendTexts(r.sends)
    /\ pc' = "finally"
    /\ cycle' = cycle + 1
    /\ sleeps' = 0
    /\ UNCHANGED <<env, prechecks, probes>>

\* one pass of the while loop of line 218
Iteration ==
    \E net \in NetResults(now), tgs \in [1..2 -> SendResults],
       elapsed \in 0..MaxElapsed :
        IterationWith(net, tgs, elapsed)

\* mutant: time.sleep at the end of the try body instead of the finally clause
Sleep_onlyWhenCompleted ==
    /\ pc = "finally"
    /\ sleeps' = IF branch = "completed" THEN sleeps + 1 ELSE sleeps
    /\ now' = IF branch = "completed" THEN now + RETRY_PERIOD ELSE now
    /\ pc' = IF pending # NoExc THEN "raised" ELSE "try"
    /\ UNCHANGED <<env, timestamp, error_list, pending, cycle, branch,
                   prev_branch, from_date,
                   response, sends, log, prechecks, probes,
                   streak_sends, caught>>

\* lines 246-247, and what follows the finally clause
Sleep ==
    /\ pc = "finally"
    /\ sleeps' = sleeps + 1
    /\ now' = now + RETRY_PERIOD
    /\ pc' = IF pending # NoExc THEN "raised" ELSE "try"
    /\ UNCHANGED <<env, timestamp, error_list, pending, cycle, branch,
                   prev_branch, from_date,
                   response, sends, log, prechecks, probes,
                   streak_sends, caught>>

Next == Startup \/ Iteration \/ Sleep

Spec == Init /\ [][Next]_vars

(* main() under fairness: the loop as long as its calls return           *)

\* one answer for each way an iteration can end: a refused request, a status
\* other than 200, an exception of no class of the program, an empty list, a
\* record that translates and a record of unknown status
LiveNetResults(clock) ==
    {NetResult("RequestException", "connection refused", 0, "ok", JNone),
     NetResult("Exception", "out of memory", 0, "ok", JNone),
     NetResult("response", "", 500, "ok", JNone)}
    \cup {NetResult("response", "", HTTP_OK, "ok",
                    JDict(<<Pair("homeworks", JList(hs)),
                            Pair("current_date", JInt(clock))>>)) :
            hs \in {<<>>, <<Homework("hw1", "approved")>>,
                    <<Homework("hw1", "lost")>>}}

\* one pass of the while loop of line 218, over the answers above
LiveIteration ==
    \E net \in LiveNetResults(now), tgs \in [1..2 -> SendResults],
       elapsed \in 0..MaxElapsed :
        IterationWith(net, tgs, elapsed)

LiveNext == Startup \/ LiveIteration \/ Sleep

\* main() is one sequential thread: while its calls return, the try statement
\* and the sleep of the finally clause are taken in turn
LiveSpec == Init /\ [][LiveNext]_vars /\ WF_vars(LiveIteration) /\ WF_vars(Sleep)

(* check_response on its own: every decoded body, one call                 *)

\* values a decoded body can hold under the homeworks key
HomeworksValues ==
    {JNone, JInt(0), JStr("homeworks"), JDict(<<>>)}
        \cup {JList(xs) : xs \in UNION {[1..k -> {Homework("hw1", "approved"),
                                                  Homework("hw2", "lost")}]
                                        : k \in 0..MaxHomeworks}}

\* the pairs of a body for one key: absent, or present with one of vs
KeyPairs(key, vs) == {<<>>} \cup {<<Pair(key, v)>> : v \in vs}

\* what response.json() can return: any JSON value, not only a dict
ValidateBodies ==
    {JNone, JInt(0), JStr("code"), JList(<<>>), JList(<<JStr("code")>>),
     JList(<<JStr("homeworks"), JStr("current_date")>>)}
        \cup {JDict(c \o h \o d) :
                c \in KeyPairs("code", {JStr("not_authenticated"), JStr("UnknownError")}),
                h \in KeyPairs("homeworks", HomeworksValues),
                d \in KeyPairs("current_date", {JInt(StartTime)})}

\* line 221 reached with a decoded body
InitValidate ==
    /\ pc = "check_response"
    /\ response \in ValidateBodies
    /\ env = [PRACTICUM_TOKEN |-> "practicum-token",
              TELEGRAM_TOKEN |-> "telegram-token", TELEGRAM_CHAT_ID |-> "42"]
    /\ now = StartTime
    /\ timestamp = StartTime
    /\ error_list = <<>>
    /\ pending = NoExc
    /\ cycle = 0
    /\ branch = ""
    /\ prev_branch = ""
    /\ from_date = StartTime
    /\ sends = <<>>
    /\ log = <<>>
    /\ sleeps = 0
    /\ prechecks = 1
    /\ probes = <<ProbeResult("response", "", 404)>>
    /\ streak_sends = <<>>
    /\ caught = NoExc

\* line 221: check_response(response); caught is what it raises
ValidateBody ==
    /\ pc = "check_response"
    /\ caught' = check_response(response)
    /\ pc' = "checked"
    /\ UNCHANGED <<env, now, timestamp, error_list, pending, cycle, branch,
                   prev_branch, from_date, response, sends, log, sleeps,
                   prechecks, probes, streak_sends>>

NextValidate == ValidateBody

SpecValidate == InitValidate /\ [][NextValidate]_vars

(* Properties                                                              *)

NoDuplicates(seq) == \A i, j \in 1..Len(seq) : i # j => seq[i] # seq[j]
Logged(level, msg) == LogRecord(level, msg) \in Range(log)
LoggedNext(level, msg) == LogRecord(level, msg) \in Range(log')

\* the exception classes raised by the failures of fetch (lines 124-137),
\* validation (lines 143-164) and translation (lines 171-183)
FailureTypes ==
    {"RequestFailedException", "UnexpectedAPIAnswerStatusException",
     "EndpointReachingException", "UnexpectedAPIAnswerException", "TypeError",
     "WrongHomeworkStructureException", "WrongHomeworkStatusException"}

\* the validated body of an iteration has a non-empty homeworks list
HasHomeworks(resp) ==
    /\ resp.t = "dict"
    /\ ~DictHas(resp, "code")
    /\ DictHas(resp, "homeworks")
    /\ DictHas(resp, "current_date")
    /\ DictGet(resp, "homeworks").t = "list"
    /\ Len(DictGet(resp, "homeworks").items) > 0

\* the validated body of an iteration has an empty homeworks list
IsNoUpdate(resp) ==
    /\ resp.t = "dict"
    /\ ~DictHas(resp, "code")
    /\ DictHas(resp, "homeworks")
    /\ DictHas(resp, "current_date")
    /\ DictGet(resp, "homeworks").t = "list"
    /\ Len(DictGet(resp, "homeworks").items) = 0

\* C1: between two completed iterations (and from the start of the loop to the
\* first) no text is handed to the messaging channel twice, every iteration
\* that ends in the except clause of lines 227-237 logs its error at error
\* severity, and an iteration failing with the message of the failed iteration
\* before it sends nothing and logs exactly that one error line.
C1_OneNotificationPerStreak ==
    /\ [](NoDuplicates(streak_sends))
    /\ [](branch = "recoverable" => Logged("ERROR", caught.msg))
    /\ [][(pc = "try" /\ branch = "recoverable" /\ branch' = "recoverable"
              /\ caught'.msg = caught.msg)
          => (sends' = <<>> /\ log' = <<LogRecord("ERROR", caught.msg)>>)]_vars

\* two consecutive iterations failed with the same transport-failure message:
\* one notification in all, none in the second
C1_Witness ==
    /\ cycle = 2
    /\ branch = "recoverable" /\ prev_branch = "recoverable"
    /\ caught.msg = "Something went wrong with Yandex API request: connection refused"
    /\ sends = <<>>
    /\ streak_sends = <<caught.msg>>
    /\ Logged("ERROR", caught.msg)

\* C2: once main has bound it, the cursor never decreases, and it changes only
\* in an iteration whose try body raised nothing and whose one send, the status
\* notification, succeeded.
C2_CursorMonotone ==
    [][pc # "main"
       => /\ timestamp' >= timestamp
          /\ timestamp' # timestamp
               => /\ branch' = "completed" /\ caught' = NoExc
                  /\ Len(sends') = 1 /\ sends'[1].ok
                  /\ HasHomeworks(response')]_vars

\* a second completed iteration moved the cursor further
C2_Witness ==
    /\ cycle = 2
    /\ branch = "completed" /\ prev_branch = "completed"
    /\ timestamp > from_date
    /\ from_date > StartTime

\* C3 (as claimed): an iteration whose status notification could not be
\* delivered ends with no exception pending, and main goes on.
C3_StatusSendFailureRecoverable ==
    caught.type = "DoesntSendMessagesException"
        => /\ pending = NoExc
           /\ pc \in {"finally", "try"}
           /\ timestamp = from_date

\* C4 (as claimed): when the send of an error notification fails, the message
\* is in the registry and main goes on to a next iteration.
C4_ErrorSendFailureLoopGoesOn ==
    (branch = "recoverable" /\ Len(sends) = 1 /\ ~sends[1].ok)
        => /\ caught.msg \in Range(error_list)
           /\ pending = NoExc
           /\ pc \in {"finally", "try"}

\* C5: an iteration that fails in fetch, validation or translation ends in
\* the except clause of lines 227-237: the error is logged at error severity,
\* its message is in the registry afterwards and was sent just when it was not
\* there before, the cursor stays, and the request of the next iteration
\* carries the same from_date.
C5_RecoverableFailure ==
    /\ [][(pc = "try" /\ caught'.type \in FailureTypes)
          => /\ branch' = "recoverable"
             /\ LoggedNext("ERROR", caught'.msg)
             /\ caught'.msg \in Range(error_list')
             /\ (caught'.msg \notin Range(error_list))
                  <=> (Len(sends') = 1 /\ sends'[1].text = caught'.msg)
             /\ (caught'.msg \in Range(error_list)) <=> (sends' = <<>>)
             /\ timestamp' = timestamp
             /\ from_date' = timestamp]_vars
    /\ [][(pc = "try" /\ branch = "recoverable") => from_date' = from_date]_vars

\* an unknown status after another failure: both messages are in the registry
\* and the second request repeated the first from_date
C5_Witness ==
    /\ cycle = 2
    /\ branch = "recoverable" /\ prev_branch = "recoverable"
    /\ caught.type = "WrongHomeworkStatusException"
    /\ Len(error_list) = 2
    /\ from_date = StartTime /\ timestamp = StartTime

\* C6: an iteration whose validated body has an empty homeworks list sends
\* nothing, leaves the cursor and the registry as they were and raises nothing;
\* it is followed by one sleep and the next iteration.
C6_NoUpdate ==
    /\ [][(pc = "try" /\ IsNoUpdate(response'))
          => /\ branch' = "empty"
             /\ sends' = <<>>
             /\ timestamp' = timestamp
             /\ error_list' = error_list
             /\ pending' = NoExc
             /\ pc' = "finally"]_vars
    /\ [][(pc = "finally" /\ branch = "empty") => (pc' = "try" /\ sleeps' = 1)]_vars

\* an empty answer after a failure: the registry still holds the message and
\* main is back at the head of the loop
C6_Witness ==
    /\ cycle = 2
    /\ branch = "empty" /\ prev_branch = "recoverable"
    /\ Len(error_list) = 1
    /\ sends = <<>>
    /\ pc = "try"

\* C7 (as claimed): the first error after an iteration that ended in NoUpdate
\* or completed is sent.
C7_NextErrorAlwaysNotified ==
    (branch = "recoverable" /\ prev_branch \in {"empty", "completed"})
        => Len(sends) = 1

\* C7 (amended): the first error after a completed iteration is sent, whatever
\* was notified before; the first error after a NoUpdate iteration is sent
\* just when its message is not in the registry, which NoUpdate left as it was.
C7_ResetOnlyOnSuccess ==
    [][(pc = "try" /\ branch' = "recoverable")
       => /\ branch = "completed"
               => (Len(sends') = 1 /\ sends'[1].text = caught'.msg)
          /\ branch = "empty"
               => ((Len(sends') = 1) <=> (caught'.msg \notin Range(error_list)))
          /\ (branch = "empty" /\ caught'.msg \in Range(error_list))
               => sends' = <<>>]_vars

\* failure, completed iteration, failure: the third iteration notified
C7_Witness ==
    /\ cycle = 3
    /\ branch = "recoverable" /\ prev_branch = "completed"
    /\ Len(sends) = 1 /\ sends[1].text = caught.msg
    /\ error_list = <<caught.msg>>
    /\ caught.msg = "Something went wrong with Yandex API request: connection refused"

\* C8 (as claimed): a completed iteration leaves the cursor at the answer's
\* current_date plus one.
C8_CursorIsCurrentDatePlusOne ==
    branch = "completed" => timestamp = DictGet(response, "current_date").n + 1

\* the status message parse_status is to build from the first record
StatusText(resp) ==
    "Izmenilsa status proverki raboty \""
        \o PyStr(DictGet(DictGet(resp, "homeworks").items[1], "homework_name"))
        \o "\". "
        \o HOMEWORK_VERDICTS[DictGet(DictGet(resp, "homeworks").items[1], "status").s]

\* C8 (amended): a completed iteration has sent the message built from the
\* first record's name and verdict, has emptied the registry and leaves the
\* cursor at the clock reading of line 225 plus one, which is current_date + 1
\* just when that reading equals current_date.
C8_CompletedIteration ==
    branch = "completed"
        => /\ sends = <<[text |-> StatusText(response), ok |-> TRUE]>>
           /\ error_list = <<>>
           /\ pc = "finally"
                => /\ timestamp = now + 1
                   /\ (timestamp = DictGet(response, "current_date").n + 1)
                        <=> (now = DictGet(response, "current_date").n)
           /\ pc # "finally" => timestamp = now - RETRY_PERIOD + 1

\* the scenario of the specification, after a failure that filled the registry
C8_Witness ==
    /\ branch = "completed" /\ prev_branch = "recoverable"
    /\ sends = <<[text |-> "Izmenilsa status proverki raboty \"hw1\". "
                             \o "Rabota proverena: rev_ueru vse ponravilos_. Ura!",
                  ok |-> TRUE]>>
    /\ error_list = <<>>
    /\ timestamp = DictGet(response, "current_date").n + 1

\* C9 (as claimed): once the loop has started, main ends only by the fatal
\* classification of lines 242-244, logged at critical severity.
C9_OnlyFatalEndsLoop ==
    (pc = "raised" /\ cycle > 0)
        => /\ branch = "fatal"
           /\ pending.type = "GeneralProgramException"
           /\ Logged("CRITICAL", pending.msg)

\* C10 (as claimed): every failure of check_tokens is logged at critical
\* severity and ends main before the loop.
C10_PrecheckFailureLoggedCritical ==
    (prechecks = 1 /\ cycle = 0 /\ caught # NoExc)
        => /\ pc \in {"exit", "raised"}
           /\ Logged("CRITICAL", caught.msg)
           /\ from_date = 0 /\ sends = <<>>

\* C11: every iteration, whichever clause it ended in, is followed by exactly
\* one time.sleep(RETRY_PERIOD): none has run when the finally clause is
\* entered, one has run when main is back at the head of the loop or has ended
\* with an exception, and the sleep itself requests and sends nothing.
C11_SleepOncePerIteration ==
    /\ [](pc = "finally" => sleeps = 0)
    /\ []((pc \in {"try", "raised"} /\ cycle > 0) => sleeps = 1)
    /\ [][pc = "finally"
          => /\ sleeps' = 1
             /\ now' = now + RETRY_PERIOD
             /\ from_date' = from_date /\ sends' = sends /\ cycle' = cycle]_vars

\* the fatal path of a second iteration: main has ended, after its one sleep
C11_Witness ==
    /\ pc = "raised"
    /\ branch = "fatal" /\ prev_branch = "recoverable"
    /\ cycle = 2
    /\ sleeps = 1

\* the first record of a validated body has both keys and a status of the
\* verdict table: parse_status returns a message for it
FirstRecordTranslates(resp) ==
    LET h == DictGet(resp, "homeworks").items[1]
    IN  /\ h.t = "dict"
        /\ DictHas(h, "homework_name")
        /\ DictHas(h, "status")
        /\ DictGet(h, "status").t = "str"
        /\ DictGet(h, "status").s \in VerdictKeys

\* C12: an iteration whose request, validation and translation succeed calls
\* bot.send_message exactly once, with the translated status text, whatever
\* error_list holds when the iteration starts and whether or not the send is
\* delivered.
C12_StatusAlwaysSentOnce ==
    [][(pc = "try" /\ HasHomeworks(response') /\ FirstRecordTranslates(response'))
       => /\ Len(sends') = 1
          /\ sends'[1].text = StatusText(response')]_vars

\* a status message sent by an iteration that started with a non-empty registry
C12_Witness ==
    /\ pc = "finally"
    /\ prev_branch = "recoverable" /\ Len(streak_sends) = 0
    /\ branch = "completed"
    /\ HasHomeworks(response) /\ FirstRecordTranslates(response)
    /\ Len(sends) = 1 /\ sends[1].ok /\ sends[1].text = StatusText(response)

StartsWith(s, p) == Len(s) >= Len(p) /\ SubSeq(s, 1, Len(p)) = p

\* one check of a body, by name; TRUE when the body fails it
CheckFails(name, resp) ==
    CASE name = "code" ->
            \/ resp.t = "dict" /\ DictHas(resp, "code")
            \/ resp.t = "list" /\ JStr("code") \in Range(resp.items)
      [] name = "not a mapping" -> resp.t # "dict"
      [] name = "no homeworks" -> resp.t = "dict" => ~DictHas(resp, "homeworks")
      [] name = "no current_date" ->
            resp.t = "dict" => ~DictHas(resp, "current_date")
      [] name = "homeworks not a list" ->
            (resp.t = "dict" /\ DictHas(resp, "homeworks"))
                => DictGet(resp, "homeworks").t # "list"
      [] name = "homeworks empty" ->
            (resp.t = "dict" /\ DictHas(resp, "homeworks")
                /\ DictGet(resp, "homeworks").t = "list")
                => Len(DictGet(resp, "homeworks").items) = 0

\* the first check of order that resp fails, "accepted" when it fails none
FirstFailing(order, resp) ==
    LET F == {i \in 1..Len(order) : CheckFails(order[i], resp)}
    IN  IF F = {} THEN "accepted"
        ELSE order[CHOOSE i \in F : \A j \in F : i <= j]

\* the check an exception of check_response reports
ReportedCheck(resp, e) ==
    CASE e = NoExc -> "accepted"
      [] e.type = "EmptyHomeworkException" -> "homeworks empty"
      [] e.type = "TypeError" /\ e.msg = NOT_A_LIST_OR_DICT ->
            IF resp.t # "dict" THEN "not a mapping" ELSE "homeworks not a list"
      [] e.type = "UnexpectedAPIAnswerException"
            /\ StartsWith(e.msg, "Unexpected yandex API answer. Code: ") -> "code"
      [] e.type = "UnexpectedAPIAnswerException"
            /\ StartsWith(e.msg, "Unexpected yandex API answer. No homeworks key: ")
            -> "no homeworks"
      [] e.type = "UnexpectedAPIAnswerException"
            /\ StartsWith(e.msg, "Unexpected yandex API answer. No current_date key: ")
            -> "no current_date"
      [] OTHER -> "other"

\* C13 as stated: check_response reports the first failing of five checks, the
\* error code first and the mapping test second, and accepts every body that
\* passes the five.
C13_FirstFailingOfFive ==
    pc = "checked"
        => ReportedCheck(response, caught)
            = FirstFailing(<<"code", "not a mapping", "no homeworks",
                             "no current_date", "homeworks not a list">>, response)

\* C13 (amended): check_response reports the first failing of six checks, in
\* the order not a dict, code key present, homeworks key absent, current_date
\* key absent, homeworks not a list, homeworks empty; a body that lacks
\* homeworks or current_date or whose homeworks is not a list is rejected with
\* UnexpectedAPIAnswerException or TypeError whenever it carries no code key,
\* and only a body with a non-empty homeworks list is accepted.
C13_FirstFailingOfSix ==
    pc = "checked"
        => /\ ReportedCheck(response, caught)
                = FirstFailing(<<"not a mapping", "code", "no homeworks",
                                 "no current_date", "homeworks not a list",
                                 "homeworks empty">>, response)
           /\ (\/ CheckFails("no homeworks", response)
               \/ CheckFails("no current_date", response)
               \/ CheckFails("homeworks not a list", response))
                => caught.type \in {"UnexpectedAPIAnswerException", "TypeError"}
           /\ caught = NoExc <=> HasHomeworks(response)

\* a body with both keys and an empty list: it passes the five checks and
\* check_response raises EmptyHomeworkException
C13_Witness ==
    /\ pc = "checked"
    /\ response = JDict(<<Pair("homeworks", JList(<<>>)),
                          Pair("current_date", JInt(StartTime))>>)
    /\ caught.type = "EmptyHomeworkException"

\* the first record of a validated body with a non-empty list
FirstRecord(resp) == DictGet(resp, "homeworks").items[1]

\* C14: for a first record that is a dict with a str status, parse_status
\* raises WrongHomeworkStructureException when homework_name or status is
\* missing, naming the first missing key and whatever the status is, and
\* WrongHomeworkStatusException when both keys are there and the status is no
\* key of HOMEWORK_VERDICTS; such an iteration ends in the except clause of
\* lines 227-237, sends nothing but the error text and leaves timestamp as it
\* was.
C14_UnknownStatusAndMissingField ==
    (pc = "finally" /\ HasHomeworks(response) /\ FirstRecord(response).t = "dict"
        /\ ~FirstRecordTranslates(response))
        => LET h == FirstRecord(response)
           IN  /\ ~DictHas(h, "homework_name")
                    => caught = Exc("WrongHomeworkStructureException",
                                    "No \"homework_name\" in homework: \""
                                        \o PyStr(h) \o "\"")
               /\ (DictHas(h, "homework_name") /\ ~DictHas(h, "status"))
                    => caught = Exc("WrongHomeworkStructureException",
                                    "No \"status\" in homework: \""
                                        \o PyStr(h) \o "\"")
               /\ (DictHas(h, "homework_name") /\ DictHas(h, "status"))
                    => caught = Exc("WrongHomeworkStatusException",
                                    "Unknown homework status: \""
                                        \o DictGet(h, "status").s \o "\"")
               /\ branch = "recoverable"
               /\ \A i \in 1..Len(sends) : sends[i].text = caught.msg
               /\ timestamp = from_date
               /\ Logged("ERROR", caught.msg)

\* a record with both keys and a status outside the table, the error text sent
C14_Witness ==
    /\ pc = "finally"
    /\ HasHomeworks(response)
    /\ FirstRecord(response) = Homework("hw1", "lost")
    /\ caught.type = "WrongHomeworkStatusException"
    /\ Len(sends) = 1 /\ sends[1].text = "Unknown homework status: \"lost\""
    /\ timestamp = from_date

\* C15: what an iteration with a non-empty homeworks list sends and catches is
\* a function of homeworks[0]: when parse_status returns a message for it, that
\* message is the one text sent, and when parse_status raises for it, that
\* exception is the one caught and its text the only text sent; the records at
\* later positions produce neither a message nor an error.
C15_FirstRecordOnly ==
    (pc = "finally" /\ HasHomeworks(response))
        => LET p == parse_status(FirstRecord(response))
           IN  /\ Len(sends) <= 1
               /\ p.exc = NoExc
                    => /\ Len(sends) = 1 /\ sends[1].text = p.value
                       /\ caught.type \in {"", "DoesntSendMessagesException"}
                       /\ sends[1].ok => branch = "completed"
               /\ p.exc # NoExc
                    => /\ caught = p.exc
                       /\ branch = "recoverable"
                       /\ \A i \in 1..Len(sends) : sends[i].text = p.exc.msg

\* two records, a good one first and one of unknown status behind it: the
\* iteration completes with the message of the first
C15_Witness ==
    /\ pc = "finally"
    /\ HasHomeworks(response)
    /\ Len(DictGet(response, "homeworks").items) = 2
    /\ parse_status(FirstRecord(response)).exc = NoExc
    /\ parse_status(DictGet(response, "homeworks").items[2]).exc # NoExc
    /\ branch = "completed"
    /\ Len(sends) = 1 /\ sends[1].text = StatusText(response)

\* C16: check_tokens tests PRACTICUM_TOKEN, TELEGRAM_TOKEN and TELEGRAM_CHAT_ID
\* in this order and raises NoEnvValueException with the text of the first
\* empty one; it requests the Telegram API once when the three are non-empty
\* and not at all otherwise, and an answer of status 401 raises
\* WrongTokenException.
C16_CheckTokensOrder ==
    LET all_set == /\ env.PRACTICUM_TOKEN # ""
                   /\ env.TELEGRAM_TOKEN # ""
                   /\ env.TELEGRAM_CHAT_ID # ""
    IN  /\ pc # "main" => Len(probes) = IF all_set THEN 1 ELSE 0
        /\ (pc # "main" /\ cycle = 0)
            => /\ env.PRACTICUM_TOKEN = ""
                    => caught = Exc("NoEnvValueException", NO_PRACTICUM_TOKEN_ANSWER)
               /\ (env.PRACTICUM_TOKEN # "" /\ env.TELEGRAM_TOKEN = "")
                    => caught = Exc("NoEnvValueException", NO_TELEGRAM_TOKEN_ANSWER)
               /\ (env.PRACTICUM_TOKEN # "" /\ env.TELEGRAM_TOKEN # ""
                        /\ env.TELEGRAM_CHAT_ID = "")
                    => caught = Exc("NoEnvValueException",
                                    NO_TELEGRAM_CHAT_ID_TOKEN_ANSWER)
               /\ (all_set /\ probes[1].kind = "response"
                        /\ probes[1].status_code = HTTP_UNAUTHORIZED)
                    => caught = Exc("WrongTokenException", WRONG_TELEGRAM_TOKEN)
               /\ caught.type = "WrongTokenException"
                    => /\ all_set
                       /\ probes[1].status_code = HTTP_UNAUTHORIZED

\* the three values set and the Telegram API answering 401
C16_Witness ==
    /\ pc = "exit"
    /\ env.PRACTICUM_TOKEN # "" /\ env.TELEGRAM_TOKEN # ""
    /\ env.TELEGRAM_CHAT_ID # ""
    /\ Len(probes) = 1 /\ probes[1].status_code = HTTP_UNAUTHORIZED
    /\ caught = Exc("WrongTokenException", WRONG_TELEGRAM_TOKEN)

\* C17: an iteration calls bot.send_message at most once: either with the
\* status text, in an iteration whose first record translates, or with the
\* text of the exception caught by the clause of lines 227-237; an iteration
\* whose status send fails ends in the clause of lines 242-244 with that one
\* send.
C17_AtMostOneSend ==
    pc = "finally"
        => /\ Len(sends) <= 1
           /\ Len(sends) = 1
                => \/ /\ branch = "recoverable"
                      /\ sends[1].text = caught.msg
                      /\ ~(HasHomeworks(response) /\ FirstRecordTranslates(response))
                   \/ /\ branch \in {"completed", "fatal"}
                      /\ HasHomeworks(response) /\ FirstRecordTranslates(response)
                      /\ sends[1].text = StatusText(response)
           /\ caught.type = "DoesntSendMessagesException"
                => /\ branch \in {"fatal", "recoverable"}
                   /\ Len(sends) = 1 /\ ~sends[1].ok
           /\ (HasHomeworks(response) /\ FirstRecordTranslates(response)
                    /\ Len(sends) >= 1 /\ ~sends[1].ok)
                => /\ branch = "fatal"
                   /\ Len(sends) = 1

\* a status send that failed: one send, no error text sent after it
C17_Witness ==
    /\ pc = "finally"
    /\ HasHomeworks(response) /\ FirstRecordTranslates(response)
    /\ caught.type = "DoesntSendMessagesException"
    /\ Len(sends) = 1 /\ ~sends[1].ok /\ sends[1].text = StatusText(response)
    /\ error_list = <<>>

\* the number of positions of seq that hold x
Count(seq, x) == Cardinality({i \in 1..Len(seq) : seq[i] = x})

\* C18: error_list never holds a string twice; each of its strings has been
\* handed to bot.send_message exactly once since error_list was last emptied;
\* and an iteration changes error_list only by emptying it or by appending the
\* text of the exception it caught in the clause of lines 227-237.
C18_RegistrySoundness ==
    /\ [](NoDuplicates(error_list))
    /\ [](\A m \in Range(error_list) : Count(streak_sends, m) = 1)
    /\ [][error_list' # error_list
          => \/ error_list' = <<>> /\ branch' = "completed"
             \/ /\ error_list' = Append(error_list, caught'.msg)
                /\ branch' = "recoverable"
                /\ caught'.type \in FailureTypes
                /\ Len(sends') = 1 /\ sends'[1].text = caught'.msg]_vars

\* two different failures followed by a repeat of the first: two strings in
\* the registry, each sent once, nothing sent by the third iteration
C18_Witness ==
    /\ cycle = 3
    /\ Len(error_list) = 2
    /\ branch = "recoverable" /\ caught.msg = error_list[1]
    /\ sends = <<>>
    /\ streak_sends = error_list

\* C19: lines 224 and 225 run together or not at all: an iteration that
\* completes leaves error_list empty and timestamp above its old value, and an
\* iteration that ends in any except clause leaves timestamp as it was and
\* error_list with all the strings it held, in their order.
C19_ClearAndAdvanceTogether ==
    [][pc = "try"
       => /\ branch' = "completed"
            => /\ error_list' = <<>>
               /\ timestamp' > timestamp
               /\ timestamp' = now' + 1
          /\ branch' # "completed"
            => /\ timestamp' = timestamp
               /\ Len(error_list') >= Len(error_list)
               /\ SubSeq(error_list', 1, Len(error_list)) = error_list
          /\ (timestamp' # timestamp) <=> (branch' = "completed")
          /\ (error_list # <<>> /\ error_list' = <<>>) => timestamp' # timestamp]_vars

\* a non-empty registry emptied and the cursor moved by the same iteration
C19_Witness ==
    /\ pc = "finally"
    /\ cycle = 3
    /\ branch = "completed" /\ prev_branch = "recoverable"
    /\ error_list = <<>>
    /\ timestamp = now + 1 /\ timestamp > from_date
    /\ from_date = StartTime

\* every bot.send_message call of the iteration was delivered
NoSendFails == \A i \in 1..Len(sends) : sends[i].ok

\* what the iteration raised, if anything, is one of the classes of fetch,
\* validation and translation failures, or the empty-answer signal
OnlyRecoverableRaised ==
    caught.type \in FailureTypes \cup {"", "EmptyHomeworkException"}

\* C20: once check_tokens has passed, every pass of the loop reaches the
\* finally clause, and after an iteration in which no send failed and nothing
\* was raised but a failure of fetch, validation or translation or the
\* empty-answer signal, the sleep is taken and the loop is at its head again:
\* main ends only after an iteration outside these conditions.  (Iterations
\* are followed as far as the bound MaxCycles lets the model go.)
C20_LoopNeverEnds ==
    /\ [][pc = "try" => pc' = "finally"]_vars
    /\ [][(pc = "finally" /\ NoSendFails /\ OnlyRecoverableRaised)
          => (pc' = "try" /\ sleeps' = 1)]_vars
    /\ []<>~(pc = "try" /\ cycle < MaxCycles)
    /\ []<>~(pc = "finally" /\ NoSendFails /\ OnlyRecoverableRaised)

\* the loop back at its head after MaxCycles iterations, the last of them
\* failed and at least two different failures notified since the registry was
\* last emptied
C20_Witness ==
    /\ pc = "try"
    /\ cycle = MaxCycles
    /\ sleeps = 1
    /\ pending = NoExc
    /\ NoSendFails /\ OnlyRecoverableRaised
    /\ branch = "recoverable"
    /\ Len(error_list) >= 2

====
